---- MODULE Spec2Model ----
(* Model of src/main.py: the TicketBay polling / dedup / notify loop.      *)
(* The module is ASCII only: the Korean seat suffixes of parse_item        *)
(* (line 96) are written in romanised form, see AreaSuffix and RowSuffix.  *)
EXTENDS Integers, Sequences, FiniteSets, TLC

(***************************************************************************)
(* Bounds of the exploration                                               *)
(***************************************************************************)
\* MAX_PAGES is read from the environment (line 19, default 5); explored at 3
MAX_PAGES == 3
\* longest listing array one fetch returns
MaxRecs == 2

(***************************************************************************)
(* Python values: None, str and int, each carried with its printed form    *)
(***************************************************************************)
PyNone == [t |-> "none", v |-> "None"]
Missing == [t |-> "missing", v |-> ""]
PyStr(s) == [t |-> "str", v |-> s]
PyInt(s) == [t |-> "int", v |-> s]

\* truth value of a Python object (None, "" and 0 are falsy)
Truthy(x) ==
    CASE x.t = "none" -> FALSE
      [] x.t = "str" -> x.v # ""
      [] x.t = "int" -> x.v # "0"
      [] OTHER -> FALSE

\* what an f-string renders for the value: None prints as the text None
Fmt(x) == x.v

\* dict.get(key): None when the key is missing
Get(d, k) == IF d[k] = Missing THEN PyNone ELSE d[k]
\* dict.get(key, default)
GetD(d, k, default) == IF d[k] = Missing THEN default ELSE d[k]

\* a raw listing record that is a dict; anything else has the fields t, v
IsDict(r) == "id" \in DOMAIN r

(***************************************************************************)
(* parse_item                                                              *)
(***************************************************************************)
AreaSuffix == "guyeok"
RowSuffix == "yeol"
LinkPrefix == "https://www.ticketbay.co.kr/product/"
LinkSuffix == "/list/0"

\* the dates of the explored records and what .replace('T', ' ') makes of them
SampleDate == "2026-11-04T19:00"
ReplaceT(s) == IF s = SampleDate THEN "2026-11-04 19:00" ELSE s

Raised(e) == [exc |-> e]
IsRaised(r) == "exc" \in DOMAIN r

RECURSIVE FilterTruthy(_)
FilterTruthy(ps) ==
    IF ps = <<>> THEN <<>>
    ELSE IF Truthy(Head(ps)) THEN <<Head(ps)>> \o FilterTruthy(Tail(ps))
         ELSE FilterTruthy(Tail(ps))

RECURSIVE Join(_)
Join(ps) ==
    IF ps = <<>> THEN ""
    ELSE IF Len(ps) = 1 THEN Head(ps).v
         ELSE Head(ps).v \o " " \o Join(Tail(ps))

AllStr(ps) == \A i \in 1..Len(ps) : ps[i].t = "str"

\* the candidate parts of line 96, before the truthiness filter
AreaPart(area) == PyStr(Fmt(area) \o AreaSuffix)
RowPart(row) == PyStr(Fmt(row) \o RowSuffix)

SeatParts(floor, area, row, grade) ==
    FilterTruthy(<<floor, AreaPart(area), RowPart(row), grade>>)

ParseItem(r) ==
    IF ~IsDict(r) THEN Raised("AttributeError")
    ELSE LET date == GetD(r, "perform_date", PyStr(""))
             parts == SeatParts(Get(r, "floor"), Get(r, "area"),
                                Get(r, "seat_number"), Get(r, "grade"))
         IN  IF date.t # "str" THEN Raised("AttributeError")
             ELSE IF ~AllStr(parts) THEN Raised("TypeError")
             ELSE [id |-> Get(r, "id"),
                   performName |-> Get(r, "depth2_name"),
                   performAt |-> PyStr(ReplaceT(date.v)),
                   seatInfo |-> PyStr(Join(parts)),
                   price |-> Get(r, "price"),
                   link |-> PyStr(LinkPrefix \o Fmt(Get(r, "category_id")) \o LinkSuffix)]

(***************************************************************************)
(* The identity store file and load_seen_ids / save_seen_ids               *)
(***************************************************************************)
\* pickle writes one opcode per element, which keeps its type: an int and
\* the str of the same digits are different elements
PickleValue(x) ==
    [op |-> IF x.t = "int" THEN "BININT" ELSE "BINUNICODE", arg |-> x.v]

\* fault variant: every element is read back as text
UnpickleAsText(e) == PyStr(e.arg)

UnpickleValue(e) == IF e.op = "BININT" THEN PyInt(e.arg) ELSE PyStr(e.arg)

\* the elements of a set in the order the dump meets them
RECURSIVE SetToSeq(_)
SetToSeq(S) ==
    IF S = {} THEN <<>>
    ELSE LET x == CHOOSE y \in S : TRUE
         IN  <<x>> \o SetToSeq(S \ {x})

\* pickle.dump of a set, line 43, and pickle.load, line 35
PickleDump(ids) == LET q == SetToSeq(ids) IN [i \in 1..Len(q) |-> PickleValue(q[i])]
PickleLoad(data) == { UnpickleValue(data[i]) : i \in 1..Len(data) }

NoFile == [kind |-> "missing", data |-> <<>>]
CorruptFile == [kind |-> "corrupt", data |-> <<>>]
Pickled(ids) == [kind |-> "set", data |-> PickleDump(ids)]

\* fault variant: a file that cannot be deserialized is taken for a fresh start
LoadCorruptAsFresh(f) ==
    IF f.kind = "set" THEN [ids |-> PickleLoad(f.data), first |-> FALSE]
    ELSE [ids |-> {}, first |-> TRUE]

\* load_seen_ids: the pair (seen_ids, first_run)
LoadSeenIds(f) ==
    IF f.kind = "missing" THEN [ids |-> {}, first |-> TRUE]
    ELSE IF f.kind = "set" THEN [ids |-> PickleLoad(f.data), first |-> FALSE]
    ELSE [ids |-> {}, first |-> FALSE]

\* save_seen_ids never raises an Exception: the file after the call is the
\* pickled set, or the old file when open() failed, or a truncated file when
\* the dump failed after open() had emptied it
SaveOutcomes(ids, f) ==
    { [file |-> Pickled(ids), ok |-> TRUE],
      [file |-> f, ok |-> FALSE],
      [file |-> CorruptFile, ok |-> FALSE] }

(***************************************************************************)
(* The listing records the fetcher is explored with                        *)
(***************************************************************************)
ID1 == PyInt("1")
ID2 == PyInt("2")
IDs == {ID1, ID2}

Raw(id, date) ==
    [id |-> id, depth2_name |-> Missing, perform_date |-> date,
     floor |-> Missing, area |-> Missing, seat_number |-> Missing,
     grade |-> Missing, addinfo |-> Missing, price |-> Missing,
     category_id |-> Missing]

\* ids 1 and 2, a record without id and a record whose perform_date is null
LoopRaws ==
    { Raw(ID1, PyStr(SampleDate)), Raw(ID2, Missing), Raw(Missing, Missing),
      Raw(ID1, PyNone) }

RECURSIVE SeqsUpTo(_, _)
SeqsUpTo(S, n) ==
    IF n = 0 THEN {<<>>}
    ELSE LET shorter == SeqsUpTo(S, n - 1)
         IN  shorter \cup { <<x>> \o q : x \in S, q \in { r \in shorter : Len(r) = n - 1 } }

\* what fetch_ticket_listings can return: [] on every failure and on an
\* empty page, the listing array otherwise
FetchResults == SeqsUpTo(LoopRaws, MaxRecs)

(***************************************************************************)
(* State of main()                                                         *)
(***************************************************************************)
VARIABLES
    pc,          \* position of the process
    cycleNo,     \* 0 before the first cycle of this run, 1 in the first
                 \* cycle, 2 in every later cycle
    file,        \* content of SEEN_IDS_PATH
    seen_ids,    \* the in-memory seen set
    first_run,   \* the flag load_seen_ids returned, cleared at line 162
    new_found,   \* line 147 / 159
    page,        \* loop variable of line 148
    rest,        \* records of the current page not yet reached by line 152
    raw,         \* the argument of parse_item when it is explored on its own
    item,        \* the result of parse_item, line 153, while it is in use
    sendOk,      \* whether the POST of the last send_ngl_alert succeeded
    loaded,      \* history: what load_seen_ids returned in this run
    sent,        \* history: calls of send_ngl_alert per id in this run
    failed,      \* history: ids whose alert hit a transport failure in this cycle
    skipped,     \* history: ids met while in seen_ids in this cycle
    prevAttempted, \* history: ids alerted by the previous run, if it ended
                 \* by the signal with a successful final save
    fetchLog,    \* history: per page fetched in this cycle, whether it had items
    offers,      \* history: truthy ids not yet seen when their page was fetched
    cycleSent,   \* history: calls of send_ngl_alert per id in this cycle
    cycleSaves,  \* history: calls of save_seen_ids at the end of this cycle
    finalSave,   \* history: the final save of the shutdown path
    sleep_time,  \* line 163, while the process sleeps
    storeFault,  \* history: a load or a save of this run has failed
    interval,    \* INTERVAL, line 18
    resp,        \* the response fetch_ticket_listings gets when it is explored
                 \* on its own
    fetched      \* what fetch_ticket_listings returned for resp

\* the configuration and the variables of the fetcher explored on its own
auxVars == <<interval, resp, fetched>>

vars == <<pc, cycleNo, file, seen_ids, first_run, new_found, page, rest,
          raw, item, sendOk, loaded, sent, failed, skipped, prevAttempted,
          fetchLog, offers, cycleSent, cycleSaves, finalSave, sleep_time,
          storeFault, interval, resp, fetched>>

\* CHECK_INTERVAL defaults to 60 seconds, line 18
INTERVAL == 60
\* the jitter of line 163 is drawn from [-5, 5]
JitterMax == 5
JitterValues == (0 - JitterMax)..JitterMax
\* the jitters the loop is explored with: both ends and the middle
LoopJitters == {0 - JitterMax, 0, JitterMax}
\* the floor of line 163
MinSleep == 1

Max(a, b) == IF a >= b THEN a ELSE b

\* fault variant: the floor of line 163 is missing
SleepTimeNoFloor(configured, jitter) == configured + jitter

\* line 163: max(1, INTERVAL + random.uniform(-5, 5)), in whole seconds
SleepTime(configured, jitter) == Max(MinSleep, configured + jitter)

(***************************************************************************)
(* JSON documents as json.loads returns them: tagged values                *)
(***************************************************************************)
JNull == [t |-> "null"]
JNum == [t |-> "num"]
JList(items) == [t |-> "list", items |-> items]
JDict(f) == [t |-> "dict", f |-> f]
EmptyDict == JDict(<<>>)
EmptyList == JList(<<>>)
OneKey(k, v) == JDict([x \in {k} |-> v])
\* an exception travelling up to the except clause of line 83
JRaise == [t |-> "raise"]
\* a key the document does not have
JAbsent == [t |-> "absent"]

\* d.get(k, default): AttributeError unless d is a dict
GetOr(d, k, default) ==
    IF d.t = "raise" THEN d
    ELSE IF d.t # "dict" THEN JRaise
    ELSE IF k \in DOMAIN d.f THEN d.f[k]
    ELSE default

\* fault variant: .get('content') without a default
ContentDefaultNone == JNull

\* line 80: the default of .get('content', [])
ContentDefault == EmptyList

\* line 79-80: the walk down props.pageProps.listServer.content
Listings(data) ==
    LET pageProps == GetOr(GetOr(data, "props", EmptyDict),
                           "pageProps", EmptyDict)
    IN  GetOr(GetOr(pageProps, "listServer", EmptyDict),
              "content", ContentDefault)

\* line 52-85: fetch_ticket_listings on the response r of requests.get
FetchTicketListings(r) ==
    IF r.transport # "ok" THEN EmptyList
    ELSE IF r.script # "text" THEN EmptyList
    ELSE IF ~r.wellformed THEN EmptyList
    ELSE LET listings == Listings(r.doc)
         IN  IF listings.t = "raise" THEN EmptyList ELSE listings

Resp(transport, script, wellformed, doc) ==
    [transport |-> transport, script |-> script,
     wellformed |-> wellformed, doc |-> doc]

NoResp == Resp("none", "missing", FALSE, JNull)
NoFetch == [t |-> "none"]
NoRaw == PyNone
NoItem == [id |-> PyNone]
NotLoaded == [ids |-> {}, first |-> FALSE]
NoFinalSave == [done |-> FALSE, ids |-> {}, ok |-> FALSE]
ZeroCount == [i \in IDs |-> 0]
Bump(f, i) == IF i \in DOMAIN f THEN [f EXCEPT ![i] = IF @ < 2 THEN @ + 1 ELSE @] ELSE f

\* the files a run can find at SEEN_IDS_PATH
StartFiles == { NoFile, CorruptFile, Pickled({}), Pickled({ID1}) }

\* a process before line 143 has run
ProcessStart ==
    /\ cycleNo = 0
    /\ seen_ids = {} /\ first_run = FALSE /\ new_found = FALSE
    /\ page = 0 /\ rest = <<>> /\ item = NoItem
    /\ sendOk = FALSE /\ loaded = NotLoaded
    /\ sent = ZeroCount /\ failed = {} /\ skipped = {}
    /\ fetchLog = <<>> /\ offers = {} /\ cycleSent = ZeroCount
    /\ cycleSaves = 0 /\ finalSave = NoFinalSave
    /\ sleep_time = 0 /\ storeFault = FALSE
    /\ resp = NoResp /\ fetched = NoFetch

Init ==
    /\ file \in StartFiles
    /\ interval = INTERVAL
    /\ prevAttempted = {}
    /\ pc = "starting"
    /\ raw = NoRaw
    /\ ProcessStart

(***************************************************************************)
(* main(): one action per step of the loop                                 *)
(***************************************************************************)
\* line 143-144: STARTING
Load ==
    /\ UNCHANGED <<sleep_time, auxVars>>
    /\ pc = "starting"
    /\ LET r == LoadSeenIds(file)
       IN  /\ seen_ids' = r.ids
           /\ first_run' = r.first
           /\ loaded' = r
    /\ storeFault' = (file.kind = "corrupt")
    /\ pc' = "cycle"
    /\ UNCHANGED <<cycleNo, file, new_found, page, rest, raw, item, sendOk,
                   sent, failed, skipped, prevAttempted, fetchLog, offers,
                   cycleSent, cycleSaves, finalSave>>

\* line 146-148: top of the while-loop, CYCLING
StartCycle ==
    /\ UNCHANGED <<sleep_time, storeFault, auxVars>>
    /\ pc = "cycle"
    /\ cycleNo' = IF cycleNo = 0 THEN 1 ELSE 2
    /\ new_found' = FALSE
    /\ page' = 0
    /\ fetchLog' = <<>> /\ offers' = {} /\ cycleSent' = ZeroCount
    /\ cycleSaves' = 0 /\ failed' = {} /\ skipped' = {}
    /\ pc' = "fetch"
    /\ UNCHANGED <<file, seen_ids, first_run, rest, raw, item, sendOk,
                   loaded, sent, prevAttempted, finalSave>>

\* fault variant: the break of line 151 is missing
AfterFetchNoBreak(listings) == "item"

\* line 150-151: where the loop goes after a fetch
AfterFetch(listings) == IF listings = <<>> THEN "endcycle" ELSE "item"

\* the truthy ids of a listing array
OfferedIds(listings) ==
    { Get(listings[i], "id") : i \in { j \in 1..Len(listings) : IsDict(listings[j]) } }
        \cap IDs

\* line 148-151: fetch the next page
FetchPage ==
    /\ UNCHANGED <<sleep_time, storeFault, auxVars>>
    /\ pc = "fetch"
    /\ page < MAX_PAGES
    /\ \E listings \in FetchResults :
        /\ rest' = listings
        /\ fetchLog' = Append(fetchLog, listings # <<>>)
        /\ offers' = offers \cup (OfferedIds(listings) \ seen_ids)
        /\ pc' = AfterFetch(listings)
    /\ UNCHANGED <<cycleNo, file, seen_ids, first_run, new_found, page,
                   raw, item, sendOk, loaded, sent, failed, skipped,
                   prevAttempted, cycleSent, cycleSaves, finalSave>>

\* line 148: range(MAX_PAGES) is exhausted
PagesDone ==
    /\ UNCHANGED <<sleep_time, storeFault, auxVars>>
    /\ pc = "fetch"
    /\ page >= MAX_PAGES
    /\ pc' = "endcycle"
    /\ UNCHANGED <<cycleNo, file, seen_ids, first_run, new_found, page,
                   rest, raw, item, sendOk, loaded, sent, failed, skipped,
                   prevAttempted, fetchLog, offers, cycleSent, cycleSaves,
                   finalSave>>

\* line 152, listings exhausted: next iteration of the page loop
NextPage ==
    /\ UNCHANGED <<sleep_time, storeFault, auxVars>>
    /\ pc = "item"
    /\ rest = <<>>
    /\ page' = page + 1
    /\ pc' = "fetch"
    /\ UNCHANGED <<cycleNo, file, seen_ids, first_run, new_found, rest,
                   raw, item, sendOk, loaded, sent, failed, skipped,
                   prevAttempted, fetchLog, offers, cycleSent, cycleSaves,
                   finalSave>>

\* fault variant: the membership test of line 155 is missing
AlreadySeenNever(tid, seen) == FALSE

\* line 155: the dedup test
AlreadySeen(tid, seen) == tid \in seen
SkipItem(tid, seen) == ~Truthy(tid) \/ AlreadySeen(tid, seen)

\* line 152-157: take the next record, parse it, skip it or call
\* send_ngl_alert; an exception of parse_item is caught nowhere and ends
\* the process, whose remaining listings die with it
NextItem ==
    /\ UNCHANGED <<sleep_time, storeFault, auxVars>>
    /\ pc = "item"
    /\ rest # <<>>
    /\ LET parsed == ParseItem(Head(rest))
       IN  IF IsRaised(parsed)
           THEN /\ pc' = "crashed"
                /\ rest' = <<>>
                /\ UNCHANGED <<item, sent, cycleSent, skipped>>
           ELSE IF SkipItem(parsed.id, seen_ids)
                THEN /\ pc' = "item"
                     /\ rest' = Tail(rest)
                     /\ skipped' = IF Truthy(parsed.id)
                                   THEN skipped \cup {parsed.id} ELSE skipped
                     /\ UNCHANGED <<item, sent, cycleSent>>
                ELSE /\ pc' = "sending"
                     /\ rest' = Tail(rest)
                     /\ item' = parsed
                     /\ sent' = Bump(sent, parsed.id)
                     /\ cycleSent' = Bump(cycleSent, parsed.id)
                     /\ UNCHANGED skipped
    /\ UNCHANGED <<cycleNo, file, seen_ids, first_run, new_found, page,
                   raw, sendOk, loaded, failed, prevAttempted, fetchLog, offers,
                   cycleSaves, finalSave>>

\* line 134-139: the POST succeeds or hits a RequestException, which is
\* logged; send_ngl_alert returns either way
SendReturns ==
    /\ UNCHANGED <<sleep_time, storeFault, auxVars>>
    /\ pc = "sending"
    /\ \E ok \in BOOLEAN :
        /\ sendOk' = ok
        /\ failed' = IF ok THEN failed ELSE failed \cup {item.id}
    /\ pc' = "sent"
    /\ UNCHANGED <<cycleNo, file, seen_ids, first_run, new_found, page,
                   rest, raw, item, loaded, sent, skipped, prevAttempted,
                   fetchLog, offers, cycleSent, cycleSaves, finalSave>>

\* fault variant: the id is added only when the alert was delivered
AddOnlyOnSuccess(seen, tid, ok) == IF ok THEN seen \cup {tid} ELSE seen

\* line 158: the set after the alert call, whatever its outcome
AddAfterSend(seen, tid, ok) == seen \cup {tid}

\* line 158-159
MarkSeen ==
    /\ UNCHANGED <<sleep_time, storeFault, auxVars>>
    /\ pc = "sent"
    /\ seen_ids' = AddAfterSend(seen_ids, item.id, sendOk)
    /\ new_found' = TRUE
    /\ item' = NoItem /\ sendOk' = FALSE
    /\ pc' = "item"
    /\ UNCHANGED <<cycleNo, file, first_run, page, rest, raw, loaded, sent, failed, skipped, prevAttempted,
                   fetchLog, offers, cycleSent, cycleSaves, finalSave>>

\* fault variant: line 160 saves at the end of every cycle
ShouldSaveAlways(newFound, firstRun) == TRUE

\* fault variant: line 160 saves on the first run only
ShouldSaveOnlyFirst(newFound, firstRun) == firstRun

\* fault variant: the first-run disjunct of line 160 is missing
ShouldSaveOnlyNew(newFound, firstRun) == newFound

\* line 160
ShouldSave(newFound, firstRun) == newFound \/ firstRun

\* line 160: end of cycle, persist or go to sleep
EndCycle ==
    /\ UNCHANGED <<storeFault, auxVars>>
    /\ pc = "endcycle"
    /\ IF ShouldSave(new_found, first_run)
       THEN /\ pc' = "saving"
            /\ cycleSaves' = cycleSaves + 1
            /\ UNCHANGED sleep_time
       ELSE /\ pc' = "sleeping"
            /\ \E j \in LoopJitters : sleep_time' = SleepTime(interval, j)
            /\ UNCHANGED cycleSaves
    /\ UNCHANGED <<cycleNo, file, seen_ids, first_run, new_found, page,
                   rest, raw, item, sendOk, loaded, sent, failed, skipped,
                   prevAttempted, fetchLog, offers, cycleSent, finalSave>>

\* fault variant: a failed write leaves save_seen_ids as an exception
AfterSaveRaises(ok) == IF ok THEN "sleeping" ELSE "crashed"

\* line 44-45: save_seen_ids returns whether or not the write succeeded
AfterSave(ok) == "sleeping"

\* line 161-165: save_seen_ids returns, the flag is cleared, SLEEPING
CycleSave ==
    /\ UNCHANGED auxVars
    /\ pc = "saving"
    /\ \E o \in SaveOutcomes(seen_ids, file) :
        /\ file' = o.file
        /\ storeFault' = (storeFault \/ ~o.ok)
        /\ pc' = AfterSave(o.ok)
    /\ first_run' = FALSE
    /\ \E j \in LoopJitters : sleep_time' = SleepTime(interval, j)
    /\ UNCHANGED <<cycleNo, seen_ids, new_found, page, rest, raw, item,
                   sendOk, loaded, sent, failed, skipped, prevAttempted,
                   fetchLog, offers, cycleSent, cycleSaves, finalSave>>

\* line 165 / 146: time.sleep returns
Wake ==
    /\ UNCHANGED <<storeFault, auxVars>>
    /\ sleep_time' = 0
    /\ pc = "sleeping"
    /\ pc' = "cycle"
    /\ UNCHANGED <<cycleNo, file, seen_ids, first_run, new_found, page,
                   rest, raw, item, sendOk, loaded, sent, failed, skipped,
                   prevAttempted, fetchLog, offers, cycleSent, cycleSaves,
                   finalSave>>

\* fault variant: save_seen_ids swallows the signal (a bare except at line 44)
InTrySaveSwallows ==
    {"cycle", "fetch", "item", "sending", "sent", "endcycle", "sleeping"}

\* the positions inside the try block of line 145: KeyboardInterrupt is a
\* BaseException, so no except clause of the callees (lines 36, 44, 66, 83,
\* 138) catches it
InTry == {"cycle", "fetch", "item", "sending", "sent", "endcycle", "saving", "sleeping"}

\* the file the handler finds: a save the signal cut short may have
\* emptied or already rewritten it
FileAtSignal(p, ids, f) ==
    IF p = "saving" THEN {f} \cup { o.file : o \in SaveOutcomes(ids, f) } ELSE {f}

\* line 166-168: the signal arrives, the handler saves and main() returns;
\* the locals of the loop die with the process, the seen set is kept for
\* the record
Interrupt ==
    /\ UNCHANGED auxVars
    /\ sleep_time' = 0
    /\ pc \in InTry
    /\ \E f \in FileAtSignal(pc, seen_ids, file) :
         \E o \in SaveOutcomes(seen_ids, f) :
            /\ file' = o.file
            /\ finalSave' = [done |-> TRUE, ids |-> seen_ids, ok |-> o.ok]
            /\ storeFault' = (storeFault \/ ~o.ok)
    /\ pc' = "stopped"
    /\ first_run' = FALSE /\ new_found' = FALSE
    /\ page' = 0 /\ rest' = <<>> /\ item' = NoItem /\ sendOk' = FALSE
    /\ failed' = {} /\ skipped' = {}
    /\ fetchLog' = <<>> /\ offers' = {} /\ cycleSent' = ZeroCount
    /\ cycleSaves' = 0
    /\ UNCHANGED <<cycleNo, seen_ids, raw, loaded, sent, prevAttempted>>

\* the signal arrives before the try block is entered: uncaught
InterruptAtStart ==
    /\ UNCHANGED <<sleep_time, storeFault, auxVars>>
    /\ pc = "starting"
    /\ pc' = "killed"
    /\ UNCHANGED <<cycleNo, file, seen_ids, first_run, new_found, page,
                   rest, raw, item, sendOk, loaded, sent, failed, skipped,
                   prevAttempted, fetchLog, offers, cycleSent, cycleSaves,
                   finalSave>>

Attempted == { i \in IDs : sent[i] > 0 }

\* the operator starts main() again on the same store path
Restart ==
    /\ UNCHANGED auxVars
    /\ sleep_time' = 0 /\ storeFault' = FALSE
    /\ pc = "stopped"
    /\ prevAttempted' = IF finalSave.ok THEN Attempted ELSE {}
    /\ pc' = "starting"
    /\ cycleNo' = 0
    /\ seen_ids' = {} /\ first_run' = FALSE /\ new_found' = FALSE
    /\ page' = 0 /\ rest' = <<>> /\ item' = NoItem
    /\ sendOk' = FALSE /\ loaded' = NotLoaded
    /\ sent' = ZeroCount /\ failed' = {} /\ skipped' = {}
    /\ fetchLog' = <<>> /\ offers' = {} /\ cycleSent' = ZeroCount
    /\ cycleSaves' = 0 /\ finalSave' = NoFinalSave
    /\ UNCHANGED <<file, raw>>

Next ==
    \/ Load
    \/ StartCycle
    \/ FetchPage
    \/ PagesDone
    \/ NextPage
    \/ NextItem
    \/ SendReturns
    \/ MarkSeen
    \/ EndCycle
    \/ CycleSave
    \/ Wake
    \/ Interrupt
    \/ InterruptAtStart
    \/ Restart

Spec == Init /\ [][Next]_vars

(***************************************************************************)
(* parse_item explored on its own, over the seat fields of a record        *)
(***************************************************************************)
FloorValues == { Missing, PyNone, PyStr(""), PyStr("3F"), PyInt("3") }
AreaValues == { Missing, PyNone, PyStr(""), PyStr("A") }
RowValues == { Missing, PyNone, PyStr(""), PyStr("5"), PyStr("12") }
GradeValues == { Missing, PyNone, PyStr(""), PyStr("R") }
DateValues == { Missing, PyNone, PyStr(SampleDate) }

ParseRaws ==
    { [Raw(ID1, d) EXCEPT !.floor = fl, !.area = ar, !.seat_number = ro, !.grade = gr] :
        fl \in FloorValues, ar \in AreaValues, ro \in RowValues,
        gr \in GradeValues, d \in DateValues }

ParseInit ==
    /\ file = NoFile
    /\ interval = INTERVAL
    /\ prevAttempted = {}
    /\ pc = "parse"
    /\ raw \in ParseRaws
    /\ ProcessStart

\* line 88-108: one call of parse_item
ParseCall ==
    /\ UNCHANGED <<sleep_time, storeFault, auxVars>>
    /\ pc = "parse"
    /\ item' = ParseItem(raw)
    /\ pc' = "parsed"
    /\ UNCHANGED <<cycleNo, file, seen_ids, first_run, new_found, page,
                   rest, raw, sendOk, loaded, sent, failed, skipped,
                   prevAttempted, fetchLog, offers, cycleSent, cycleSaves,
                   finalSave>>

ParseNext == ParseCall

ParseSpec == ParseInit /\ [][ParseNext]_vars

(***************************************************************************)
(* save_seen_ids followed by load_seen_ids, explored on their own          *)
(***************************************************************************)
\* ids of both types, among them the int 1 and the str "1"
StoreIds == { ID1, ID2, PyStr("1"), PyStr("a") }

StoreInit ==
    /\ file \in StartFiles
    /\ seen_ids \in SUBSET StoreIds
    /\ prevAttempted = {}
    /\ pc = "store"
    /\ raw = NoRaw
    /\ cycleNo = 0
    /\ first_run = FALSE /\ new_found = FALSE
    /\ page = 0 /\ rest = <<>> /\ item = NoItem
    /\ sendOk = FALSE /\ loaded = NotLoaded
    /\ sent = ZeroCount /\ failed = {} /\ skipped = {}
    /\ fetchLog = <<>> /\ offers = {} /\ cycleSent = ZeroCount
    /\ cycleSaves = 0 /\ finalSave = NoFinalSave
    /\ sleep_time = 0 /\ storeFault = FALSE
    /\ interval = INTERVAL
    /\ resp = NoResp /\ fetched = NoFetch

\* line 40-45: one call of save_seen_ids, recorded in finalSave
StoreSave ==
    /\ UNCHANGED <<sleep_time, storeFault, auxVars>>
    /\ pc = "store"
    /\ \E o \in SaveOutcomes(seen_ids, file) :
        /\ file' = o.file
        /\ finalSave' = [done |-> TRUE, ids |-> seen_ids, ok |-> o.ok]
    /\ pc' = "stored"
    /\ UNCHANGED <<cycleNo, seen_ids, first_run, new_found, page, rest, raw,
                   item, sendOk, loaded, sent, failed, skipped, prevAttempted,
                   fetchLog, offers, cycleSent, cycleSaves>>

\* line 30-37: one call of load_seen_ids on the same path
StoreLoad ==
    /\ UNCHANGED <<sleep_time, storeFault, auxVars>>
    /\ pc = "stored"
    /\ loaded' = LoadSeenIds(file)
    /\ pc' = "reloaded"
    /\ UNCHANGED <<cycleNo, file, seen_ids, first_run, new_found, page, rest,
                   raw, item, sendOk, sent, failed, skipped, prevAttempted,
                   fetchLog, offers, cycleSent, cycleSaves, finalSave>>

StoreNext == StoreSave \/ StoreLoad

StoreSpec == StoreInit /\ [][StoreNext]_vars

(***************************************************************************)
(* The sleep duration of line 163, explored over the configured interval   *)
(***************************************************************************)
\* CHECK_INTERVAL is any number: explored from -IntervalSpan to IntervalSpan
\* and at the default
IntervalSpan == 12
IntervalValues == ((0 - IntervalSpan)..IntervalSpan) \cup {INTERVAL}

SleepInit ==
    /\ file = NoFile
    /\ prevAttempted = {}
    /\ pc = "endcycle"
    /\ raw = NoRaw
    /\ interval \in IntervalValues
    /\ ProcessStart

\* line 163-165: the duration is computed and the process sleeps
SleepCalc ==
    /\ pc = "endcycle"
    /\ \E j \in JitterValues : sleep_time' = SleepTime(interval, j)
    /\ pc' = "sleeping"
    /\ UNCHANGED <<cycleNo, file, seen_ids, first_run, new_found, page, rest,
                   raw, item, sendOk, loaded, sent, failed, skipped,
                   prevAttempted, fetchLog, offers, cycleSent, cycleSaves,
                   finalSave, storeFault, auxVars>>

SleepNext == SleepCalc

SleepSpec == SleepInit /\ [][SleepNext]_vars

(***************************************************************************)
(* fetch_ticket_listings explored on its own                               *)
(***************************************************************************)
\* the dicts that hold key k with a value of opts, or do not hold it
Under(k, opts) ==
    { IF o.t = "absent" THEN EmptyDict ELSE OneKey(k, o) : o \in opts }

NotDicts == {JNull, JNum}
ContentValues == {JAbsent} \cup NotDicts \cup { JList(q) : q \in FetchResults }
ListServerValues == {JAbsent} \cup NotDicts \cup Under("content", ContentValues)
PagePropsValues ==
    {JAbsent} \cup NotDicts \cup Under("listServer", ListServerValues)
PropsValues == {JAbsent} \cup NotDicts \cup Under("pageProps", PagePropsValues)
Docs == NotDicts \cup {EmptyList} \cup Under("props", PropsValues)

TransportFailures == {"connection", "timeout", "status"}

Responses ==
    { Resp(t, "missing", FALSE, JNull) : t \in TransportFailures }
      \cup { Resp("ok", s, FALSE, JNull) : s \in {"missing", "empty"} }
      \cup { Resp("ok", "text", FALSE, JNull) }
      \cup { Resp("ok", "text", TRUE, d) : d \in Docs }

FetchInit ==
    /\ resp \in Responses
    /\ page \in 0..(MAX_PAGES - 1)
    /\ fetched = NoFetch
    /\ pc = "request"
    /\ file = NoFile /\ seen_ids = {}
    /\ prevAttempted = {}
    /\ raw = NoRaw
    /\ cycleNo = 0
    /\ first_run = FALSE /\ new_found = FALSE
    /\ rest = <<>> /\ item = NoItem
    /\ sendOk = FALSE /\ loaded = NotLoaded
    /\ sent = ZeroCount /\ failed = {} /\ skipped = {}
    /\ fetchLog = <<>> /\ offers = {} /\ cycleSent = ZeroCount
    /\ cycleSaves = 0 /\ finalSave = NoFinalSave
    /\ sleep_time = 0 /\ storeFault = FALSE
    /\ interval = INTERVAL

\* line 52-85: one call of fetch_ticket_listings(page)
FetchCall ==
    /\ pc = "request"
    /\ fetched' = FetchTicketListings(resp)
    /\ pc' = "responded"
    /\ UNCHANGED <<cycleNo, file, seen_ids, first_run, new_found, page, rest,
                   raw, item, sendOk, loaded, sent, failed, skipped,
                   prevAttempted, fetchLog, offers, cycleSent, cycleSaves,
                   finalSave, sleep_time, storeFault, interval, resp>>

FetchNext == FetchCall

FetchSpec == FetchInit /\ [][FetchNext]_vars

TypeOK ==
    /\ pc \in InTry \cup {"starting", "stopped", "crashed", "killed", "parse", "parsed",
                      "store", "stored", "reloaded"}
    /\ seen_ids \subseteq IDs
    /\ page \in 0..MAX_PAGES

(***************************************************************************)
(* Properties                                                              *)
(***************************************************************************)
\* the seat fields present in a record, rendered as section 4.3 describes
RECURSIVE SpaceJoined(_)
SpaceJoined(ss) ==
    IF ss = <<>> THEN ""
    ELSE IF Len(ss) = 1 THEN Head(ss)
         ELSE Head(ss) \o " " \o SpaceJoined(Tail(ss))

Present(x) == x.t = "str" /\ x.v # ""
Absent(x) == x.t \in {"missing", "none"} \/ x = PyStr("")
Rendered(x, suffix) == IF Present(x) THEN <<x.v \o suffix>> ELSE <<>>

PresentSeatFields(r) ==
    Rendered(r.floor, "") \o Rendered(r.area, AreaSuffix)
        \o Rendered(r.seat_number, RowSuffix) \o Rendered(r.grade, "")

SeatFieldsInDomain(r) ==
    \A x \in {r.floor, r.area, r.seat_number, r.grade} : Present(x) \/ Absent(x)

\* the positions of the monitor loop after STARTING
RunningStates ==
    {"cycle", "fetch", "item", "sending", "sent", "endcycle", "saving", "sleeping"}
\* the positions between two statements of the loop body, outside the
\* call of send_ngl_alert and the add that follows it
BetweenDispatches == {"cycle", "fetch", "item", "endcycle", "saving", "sleeping"}

\* C1: within one run, send_ngl_alert is never called for an id that is in
\* the seen set, whether it was loaded or added after an earlier dispatch
C1_DedupIdempotence ==
    [][\A i \in IDs : sent'[i] > sent[i] => i \notin seen_ids]_vars

\* an id alerted in the first cycle came back in the second and was skipped
C1_Witness ==
    \E i \in skipped : sent[i] = 1 /\ cycleSent[i] = 0 /\ cycleNo = 2 /\ i \notin loaded.ids

\* C2: after a run ended by the signal with a successful final save, the
\* next run never alerts for an id the earlier run already alerted for
C2_NoDuplicateAcrossRestarts ==
    \A i \in prevAttempted : sent[i] = 0

\* C3: outside the dispatch step, the ids added to the seen set in this run
\* are exactly the ids send_ngl_alert was called for in this run
C3_SeenIffAttempted ==
    pc \notin {"sending", "sent"} => (seen_ids \ loaded.ids) = Attempted

\* C4: once a cycle is over, every truthy id that was on a fetched page and
\* not yet seen has been alerted exactly once in the cycle, is in the seen
\* set, and the cycle is marked as having found something new
C4_EveryNewOfferNotified ==
    pc \in {"endcycle", "saving", "sleeping", "crashed"} =>
        \A i \in offers : cycleSent[i] = 1 /\ i \in seen_ids /\ new_found

\* C5: the loop has no error-terminal state: no record, whatever its shape,
\* ends the process
C5_NoErrorTerminal ==
    pc # "crashed"

\* C6: the signal can arrive at every position after STARTING, and its step
\* ends in STOPPED after a final save_seen_ids of the current seen set
C6_ControlledShutdown ==
    /\ [](pc \in RunningStates => ENABLED Interrupt)
    /\ [][Interrupt => /\ pc' = "stopped"
                       /\ finalSave'.done
                       /\ finalSave'.ids = seen_ids
                       /\ (finalSave'.ok => file' = Pickled(seen_ids))]_vars

\* the signal arrived while an alert was in flight and the final save
\* wrote the set without the id of that alert
C6_Witness ==
    /\ pc = "stopped"
    /\ finalSave.done /\ finalSave.ok
    /\ file = Pickled(finalSave.ids)
    /\ \E i \in IDs : sent[i] = 1 /\ i \notin finalSave.ids

\* C7: when the store file was missing at start, the first cycle ends with
\* exactly one save even without new ids, and no later cycle without new
\* ids saves
C7_FirstRunPersistence ==
    (pc = "sleeping" /\ loaded.first) =>
        /\ cycleNo = 1 => cycleSaves = 1
        /\ (cycleNo > 1 /\ ~new_found) => cycleSaves = 0

\* a second cycle without new ids went to sleep without a save, after a
\* first cycle without new ids on a missing store
C7_Witness ==
    /\ pc = "sleeping" /\ loaded.first
    /\ cycleNo = 2 /\ seen_ids = {} /\ cycleSaves = 0
    /\ file.kind # "missing"

\* C8: within one cycle no page is fetched after a fetch returned empty
C8_PaginationShortCircuit ==
    \A k \in 1..Len(fetchLog) : k < Len(fetchLog) => fetchLog[k]

\* page 0 had items, page 1 was empty, and the cycle ended there
C8_Witness ==
    pc = "sleeping" /\ fetchLog = <<TRUE, FALSE>>

\* C9: send_ngl_alert is called at most once per id in a run, and an id
\* whose alert hit a transport failure is in the seen set as soon as the
\* loop moves on
C9_DispatchFailureKeepsDedup ==
    /\ \A i \in IDs : sent[i] <= 1
    /\ pc \in BetweenDispatches => failed \subseteq seen_ids

\* an id whose alert failed came back and was skipped
C9_Witness ==
    \E i \in failed : i \in skipped /\ sent[i] = 1

\* C10: for every combination of present / absent floor, area, row and
\* grade, seatInfo is the space-joined sequence of exactly the present
\* fields, in order, absent fields omitted
C10_SeatInfoComposition ==
    (pc = "parsed" /\ SeatFieldsInDomain(raw) /\ ~IsRaised(item))
        => item.seatInfo = PyStr(SpaceJoined(PresentSeatFields(raw)))

\* C11: load_seen_ids on a file that cannot be deserialized returns the
\* empty set with first_run false, does not raise and leaves the file as
\* it is
C11_CorruptionTolerance ==
    [][(pc = "starting" /\ file.kind = "corrupt" /\ pc' \notin {"starting", "killed"})
          => /\ pc' = "cycle"
             /\ seen_ids' = {}
             /\ first_run' = FALSE
             /\ file' = file]_vars

\* the loop was entered over a corrupt file, which is still there
C11_Witness ==
    /\ pc = "cycle" /\ cycleNo = 0
    /\ file = CorruptFile
    /\ seen_ids = {} /\ ~first_run

C13_SleepBound ==
    pc = "sleeping" => sleep_time >= 1

\* a negative interval with the lowest jitter sleeps exactly one unit
C13_Witness ==
    pc = "sleeping" /\ interval < 0 /\ sleep_time = 1

\* C14: the signal is observed only between loop iterations: the shutdown
\* path never starts while a call of send_ngl_alert is in flight or has
\* returned with its id not yet added to the seen set
C14_CooperativeCancellation ==
    [][pc' = "stopped" => pc \notin {"sending", "sent"}]_vars

\* a record whose fields are each missing, null or of the expected type
FieldsMissingNullOrExpected(r) ==
    \A x \in {r.perform_date, r.floor, r.area, r.seat_number, r.grade} :
        x.t \in {"missing", "none", "str"}

ItemFields == {"id", "performName", "performAt", "seatInfo", "price", "link"}

\* C15: parse_item fails for no record, whatever subset of its keys is
\* missing or null, and returns an item with all six fields
C15_ParserTotality ==
    (pc = "parsed" /\ FieldsMissingNullOrExpected(raw)) =>
        (~IsRaised(item) /\ DOMAIN item = ItemFields)

Path == <<"props", "pageProps", "listServer", "content">>

RECURSIVE MissingOnPath(_, _)
\* walking keys down from dict d, a dict on the way lacks its key
MissingOnPath(d, keys) ==
    IF keys = <<>> \/ d.t # "dict" THEN FALSE
    ELSE IF Head(keys) \notin DOMAIN d.f THEN TRUE
    ELSE MissingOnPath(d.f[Head(keys)], Tail(keys))

RECURSIVE AtPath(_, _)
\* the value found at the end of keys, JAbsent when the walk cannot get there
AtPath(d, keys) ==
    IF keys = <<>> THEN d
    ELSE IF d.t # "dict" \/ Head(keys) \notin DOMAIN d.f THEN JAbsent
    ELSE AtPath(d.f[Head(keys)], Tail(keys))

FetchFailure(r) ==
    \/ r.transport \in TransportFailures
    \/ r.script \in {"missing", "empty"}
    \/ ~r.wellformed
    \/ MissingOnPath(r.doc, Path)

\* C16: fetch_ticket_listings never raises; a transport failure, a missing or
\* empty script element, malformed JSON or a missing key on the path
\* props.pageProps.listServer.content gives an empty sequence; otherwise the
\* result is what the document holds at that path.
C16_FetcherFailureIsolation ==
    pc = "responded" =>
        /\ fetched.t # "raise"
        /\ FetchFailure(resp) => fetched = EmptyList
        /\ (~FetchFailure(resp) /\ AtPath(resp.doc, Path).t # "absent")
              => fetched = AtPath(resp.doc, Path)

C16_Witness ==
    /\ pc = "responded"
    /\ resp.wellformed
    /\ resp.doc.t = "dict" /\ "props" \in DOMAIN resp.doc.f
    /\ MissingOnPath(resp.doc, Path)
    /\ fetched = EmptyList

\* C17: a failed write of save_seen_ids is not propagated: the step out of
\* the end-of-cycle save leaves the seen set as it was and reaches SLEEPING,
\* from where the next cycle can start; the save of the shutdown handler
\* leaves the seen set as it was and main() returns, failed write or not.
C17_SaveFailureAbsorbed ==
    /\ [][(pc = "saving" /\ pc' # "stopped")
             => (pc' = "sleeping" /\ seen_ids' = seen_ids)]_vars
    /\ [][(pc \in InTry /\ finalSave' # finalSave)
             => (pc' = "stopped" /\ seen_ids' = seen_ids)]_vars
    /\ [](pc = "sleeping" => ENABLED Wake)

C17_Witness ==
    /\ pc = "sleeping"
    /\ cycleSaves = 1
    /\ seen_ids # {}
    /\ file # Pickled(seen_ids)

\* the positions of one cycle of the loop of line 146
CycleStates == {"cycle", "fetch", "item", "sending", "sent", "endcycle", "saving"}

\* the k-th fetch of a cycle is the fetch of page k-1, made when no record
\* of the page before is left, and a cycle makes at most MAX_PAGES fetches
PagesInOrder ==
    /\ [][fetchLog' # fetchLog /\ fetchLog' # <<>>
             => /\ pc = "fetch" /\ rest = <<>>
                /\ page = Len(fetchLog)
                /\ fetchLog' = Append(fetchLog, rest' # <<>>)]_vars
    /\ [](Len(fetchLog) <= MAX_PAGES)

\* C18: pages are fetched in increasing order from 0, each after the records
\* of the page before are done, at most MAX_PAGES per cycle, and a cycle that
\* the signal does not stop goes on to the persist decision and SLEEPING
C18_PageOrderingAndBound ==
    /\ PagesInOrder
    /\ [][(pc \in CycleStates /\ pc' # "stopped")
             => pc' \in CycleStates \cup {"sleeping"}]_vars

\* the ids the running cycle has added to the seen set: an alert goes out
\* only for an id that was not in the set
AddedThisCycle == { i \in IDs : cycleSent[i] > 0 /\ i \in seen_ids }

\* C19: when the store file existed at start (load_seen_ids returned
\* first_run = False, after a good or a failed deserialization), the file
\* changes only in the save at the end of a cycle that added an id, or in
\* the save of the shutdown handler; that save is only entered by such a cycle
C19_NoWriteWithoutChange ==
    /\ [][(~loaded.first /\ pc \in RunningStates /\ file' # file)
             => \/ pc' = "stopped"
                \/ pc = "saving" /\ new_found /\ AddedThisCycle # {}]_vars
    /\ []((~loaded.first /\ pc = "saving")
             => (new_found /\ AddedThisCycle # {}))

\* a cycle that fetched a page and added nothing left the corrupt store as
\* it was
C19_Witness ==
    /\ pc = "sleeping"
    /\ ~loaded.first /\ ~first_run
    /\ fetchLog # <<>> /\ fetchLog[1]
    /\ seen_ids = {} /\ cycleSaves = 0
    /\ file = CorruptFile

\* the set a restart would load from the store file
StoredIds == LoadSeenIds(file).ids

\* C20: as long as load_seen_ids met no deserialization error and no
\* save_seen_ids failed, the set in the store file equals the seen set in
\* SLEEPING and is a subset of it everywhere else after the load
C20_PersistedTracksMemory ==
    (pc \in RunningStates \cup {"stopped", "crashed"} /\ ~storeFault) =>
        /\ StoredIds \subseteq seen_ids
        /\ pc = "sleeping" => StoredIds = seen_ids

\* both ids were added after an empty load and are in the file
C20_Witness ==
    /\ pc = "sleeping"
    /\ ~storeFault
    /\ loaded.ids = {}
    /\ seen_ids = IDs
    /\ StoredIds = IDs

====
